---------------------------- MODULE Spec2Model ----------------------------
(***************************************************************************)
(* ColorPick (src/ColorPick.py): a PyQt6 window that records the colour    *)
(* under the mouse pointer when a global hotkey is pressed.                *)
(*                                                                         *)
(* Execution contexts:                                                     *)
(*   - the main (GUI) thread: the constructor, the slots add_color_record, *)
(*     clear_history, change_hotkey and the 100 ms live timer;             *)
(*   - one KeyListenerThread per start_listener call, whose run() calls    *)
(*     keyboard.add_hotkey and then blocks in keyboard.wait();             *)
(*   - the keyboard library's hook thread, which runs capture_color for    *)
(*     every registered hotkey that matches a key press.                   *)
(* colorCaptured is emitted off the main thread, so Qt queues it and the   *)
(* main thread's event loop delivers it to add_color_record.               *)
(*                                                                         *)
(* An exception that leaves a slot or QThread.run() unhandled ends the     *)
(* process (PyQt6 calls qFatal when no excepthook is installed, and the    *)
(* source installs none); an exception that leaves the constructor ends    *)
(* the script.  Both are the state app = "aborted".                        *)
(***************************************************************************)
EXTENDS Integers, Sequences, FiniteSets, TLC

\* ------------------------------------------------------------ constants
MAX_COLOR_RECORDS == 20

DEFAULT_HOTKEY == "ctrl+shift+c"

\* ------------------------------------------------------------- bounds
\* start_listener calls (listener threads ever created) in one run
MaxThreads == 2
\* capture events emitted in one run of Spec and SpecStore
MaxEmit == 2
\* capture events emitted in one run of SpecFifo
MaxFifoCaptures == 22

\* ------------------------------------------------------- environment
\* Strings the operator may type in the change-hotkey dialog.
HotkeyInputs == {DEFAULT_HOTKEY, "ctrl+alt+c", "not a valid spec!!", ""}

\* keyboard.add_hotkey parses its spec and raises ValueError for a key name
\* it does not know.
ParseOk(spec) == spec \in {"ctrl+shift+c", "ctrl+alt+c"}

\* Where the pointer is at a tick of the live timer.
TickPositions == {<<0, 0>>, <<1, 1>>}

\* Where the pointer is at the k-th hotkey press of a run: the user moves on
\* after every capture, so the samples of a run are pairwise distinct.
PointerPath(k) == <<k, k % 3>>

\* The screen content: the pixel at (x, y), as 8-bit channels.
ScreenPixel(x, y) ==
    [r |-> (x * 85 + 10) % 256, g |-> (x * 7 + y) % 256, b |-> (255 - x * 3) % 256]

\* ------------------------------------------------------ pure functions
LowerDigits == <<"0","1","2","3","4","5","6","7","8","9","a","b","c","d","e","f">>

UpperOf(c) ==
    CASE c = "a" -> "A" [] c = "b" -> "B" [] c = "c" -> "C"
      [] c = "d" -> "D" [] c = "e" -> "E" [] c = "f" -> "F"
      [] OTHER -> c

\* QColor.name(): "#rrggbb", lower case, two digits per channel.
ColorName(r, g, b) ==
    <<"#", LowerDigits[(r \div 16) + 1], LowerDigits[(r % 16) + 1],
           LowerDigits[(g \div 16) + 1], LowerDigits[(g % 16) + 1],
           LowerDigits[(b \div 16) + 1], LowerDigits[(b % 16) + 1]>>

\* str.upper()
Upper(s) == [i \in 1..Len(s) |-> UpperOf(s[i])]

\* The dict built in capture_color for the pointer at p.
ColorData(p) ==
    LET px == ScreenPixel(p[1], p[2])
    IN  [x |-> p[1], y |-> p[2], r |-> px.r, g |-> px.g, b |-> px.b,
         hex |-> Upper(ColorName(px.r, px.g, px.b))]

\* Python values that json.load can return, and the unparsable text.
PyList(items) == [t |-> "list", items |-> items, nkeys |-> 0]
PyDict(n) == [t |-> "dict", items |-> <<>>, nkeys |-> n]
BadText == [t |-> "invalid", items |-> <<>>, nkeys |-> 0]

\* JSON text.  A document is an array, an object or unparsable text (t); an
\* array's items are the texts of its objects, each a sequence of members
\* <<key, value text>> in the order written; a value text is the sequence of
\* its characters.
Digits10 == <<"0","1","2","3","4","5","6","7","8","9">>

\* How json.dump writes a non-negative int: decimal, no leading zeros.
RECURSIVE NatText(_)
NatText(n) ==
    IF n < 10 THEN <<Digits10[n + 1]>>
    ELSE Append(NatText(n \div 10), Digits10[(n % 10) + 1])

\* How json.dump writes an int.
IntText(n) == IF n < 0 THEN <<"-">> \o NatText(-n) ELSE NatText(n)

\* How json.dump writes a str that needs no escapes: between double quotes.
StrText(s) == <<"\"">> \o s \o <<"\"">>

\* How json.dump writes one colour dict: its members in insertion order.
DumpRecord(rec) ==
    << <<"x", IntText(rec.x)>>, <<"y", IntText(rec.y)>>, <<"r", IntText(rec.r)>>,
       <<"g", IntText(rec.g)>>, <<"b", IntText(rec.b)>>, <<"hex", StrText(rec.hex)>> >>

\* json.dump(value, file, indent=4)
json_dump(v) ==
    [t |-> v.t, items |-> [i \in 1..Len(v.items) |-> DumpRecord(v.items[i])],
     nkeys |-> v.nkeys]

DigitValue(c) == CHOOSE d \in 0..9 : Digits10[d + 1] = c

\* An unsigned decimal read with its lowest digit first.
RECURSIVE NatValueLowFirst(_)
NatValueLowFirst(cs) ==
    IF Len(cs) = 1 THEN DigitValue(cs[1])
    ELSE DigitValue(cs[1]) + 10 * NatValueLowFirst(Tail(cs))

\* How json.load reads an unsigned decimal.
RECURSIVE NatValue(_)
NatValue(cs) ==
    IF Len(cs) = 1 THEN DigitValue(cs[1])
    ELSE 10 * NatValue(SubSeq(cs, 1, Len(cs) - 1)) + DigitValue(cs[Len(cs)])

\* How json.load reads a value text: a string literal or an int.
ValueOf(text) ==
    IF text[1] = "\"" THEN SubSeq(text, 2, Len(text) - 1)
    ELSE IF text[1] = "-" THEN 0 - NatValue(Tail(text))
    ELSE NatValue(text)

\* How json.load reads one object: a dict from its keys to their values.
LoadRecord(members) ==
    [k \in {members[i][1] : i \in 1..Len(members)} |->
        ValueOf((CHOOSE m \in {members[i] : i \in 1..Len(members)} : m[1] = k)[2])]

\* json.load(file) of a text that parses
json_load(text) ==
    [t |-> text.t, items |-> [i \in 1..Len(text.items) |-> LoadRecord(text.items[i])],
     nkeys |-> text.nkeys]

\* color_log.json: whether it exists, and its text.
NoFile == [exists |-> FALSE, doc |-> BadText]
FileOf(doc) == [exists |-> TRUE, doc |-> doc]

\* len(value)
PyLen(v) == IF v.t = "list" THEN Len(v.items) ELSE v.nkeys

\* A well-formed persisted list of n records.
StoredList(n) == PyList([i \in 1..n |-> ColorData(<<i + 100, i>>)])

\* ---------------------------------------------------------------- state
VARIABLES
    app,              \* "start" | "running" | "aborted"
    file,             \* color_log.json: [exists, doc]
    color_history,    \* self.color_history (a Python value)
    color_list,       \* rows of the QListWidget
    live,             \* the live labels: a colour dict, or the initial text
    hotkey,           \* self.hotkey
    listener_thread,  \* self.listener_thread: index into threads, 0 = unset
    threads,          \* every KeyListenerThread created: [pc, hotkey, arg]
    kb_listening,     \* the keyboard library's listener has been set up
    os_hotkeys,       \* hotkeys registered with the keyboard library
    queue,            \* colorCaptured emissions queued for the main thread
    modal,            \* the modal dialog open on the main thread
    clipboard,        \* the text last given to pyperclip.copy, <<>> for none
    last_dropped,     \* history: what the latest step gave up on ("none",
                      \* "capture", "tick", "dialog", "copy")
    emitted,          \* history: every colorCaptured emission, in order
    delivered         \* history: every add_color_record argument, in order

vars == <<app, file, color_history, color_list, live, hotkey, listener_thread,
          threads, kb_listening, os_hotkeys, queue, modal, clipboard, last_dropped,
          emitted, delivered>>

store == <<file, color_history, color_list>>
hotkeyState == <<hotkey, listener_thread, threads, kb_listening, os_hotkeys>>

InitialLive == [x |-> 0, y |-> 0, r |-> 0, g |-> 0, b |-> 0,
                hex |-> <<"#","0","0","0","0","0","0">>]

InitWith(files) ==
    /\ app = "start"
    /\ file \in files
    /\ color_history = PyList(<<>>)
    /\ color_list = <<>>
    /\ live = InitialLive
    /\ hotkey = DEFAULT_HOTKEY
    /\ listener_thread = 0
    /\ threads = <<>>
    /\ kb_listening = FALSE
    /\ os_hotkeys = {}
    /\ queue = <<>>
    /\ modal = "none"
    /\ clipboard = <<>>
    /\ last_dropped = "none"
    /\ emitted = <<>>
    /\ delivered = <<>>

\* -------------------------------------------------------------- helpers
\* load_data
load_data(f) ==
    IF f.exists
    THEN IF f.doc.t = "invalid" THEN PyList(<<>>) ELSE json_load(f.doc)
    ELSE PyList(<<>>)

\* update_color_list_display raises TypeError when an element of the value
\* is no record: iterating a dict yields its keys (strings).
DisplayRaises(v) == v.t = "dict" /\ v.nkeys > 0

\* update_color_list_display: one row per record, numbered from 1.
DisplayRows(v) == [i \in 1..Len(v.items) |-> [index |-> i, data |-> v.items[i]]]

\* The process ends: the queued events and the OS hooks die with it.
Abort ==
    /\ app' = "aborted"
    /\ os_hotkeys' = {}

\* start_listener: a new KeyListenerThread(self.hotkey), connected, started.
start_listener(ths, hk) == Append(ths, [pc |-> "started", hotkey |-> hk, arg |-> ""])

\* ------------------------------------------------------------- actions
\* ColorLoggerApp.__init__
Construct ==
    /\ app = "start"
    /\ color_history' = load_data(file)
    /\ IF DisplayRaises(color_history')
       THEN /\ Abort
            /\ UNCHANGED <<color_list, threads, listener_thread>>
       ELSE /\ app' = "running"
            /\ color_list' = DisplayRows(color_history')
            /\ threads' = start_listener(threads, hotkey)
            /\ listener_thread' = Len(threads')
            /\ UNCHANGED os_hotkeys
    /\ last_dropped' = "none"
    /\ UNCHANGED <<file, live, hotkey, kb_listening, queue, modal, clipboard, emitted,
                   delivered>>

\* KeyListenerThread.run, line 42 up to the call: self.hotkey is read as the
\* argument and keyboard.add_hotkey sets up the library's listener (its
\* hotkey tables) if no call has done so before.
RunEnter(t) ==
    /\ app = "running"
    /\ threads[t].pc = "started"
    /\ threads' = [threads EXCEPT ![t].pc = "adding", ![t].arg = threads[t].hotkey]
    /\ kb_listening' = TRUE
    /\ last_dropped' = "none"
    /\ UNCHANGED <<app, store, live, hotkey, listener_thread, os_hotkeys, queue,
                   modal, clipboard, emitted, delivered>>

\* RunRegister with the ValueError swallowed: the thread ends, the process
\* goes on.
RunRegisterQuiet(t) ==
    /\ app = "running"
    /\ threads[t].pc = "adding"
    /\ IF ParseOk(threads[t].arg)
       THEN /\ os_hotkeys' = os_hotkeys \cup {[owner |-> t, hotkey |-> threads[t].arg]}
            /\ threads' = [threads EXCEPT ![t].pc = "waiting"]
       ELSE /\ threads' = [threads EXCEPT ![t].pc = "failed"]
            /\ UNCHANGED os_hotkeys
    /\ last_dropped' = "none"
    /\ UNCHANGED <<app, store, live, hotkey, listener_thread, kb_listening, queue,
                   modal, clipboard, emitted, delivered>>

\* KeyListenerThread.run, the rest of line 42 and line 43: keyboard.add_hotkey
\* parses the spec and registers it, or raises ValueError, which nothing
\* catches; then the thread blocks in keyboard.wait() for good.
RunRegister(t) ==
    /\ app = "running"
    /\ threads[t].pc = "adding"
    /\ IF ParseOk(threads[t].arg)
       THEN /\ os_hotkeys' = os_hotkeys \cup {[owner |-> t, hotkey |-> threads[t].arg]}
            /\ threads' = [threads EXCEPT ![t].pc = "waiting"]
            /\ UNCHANGED app
       ELSE /\ threads' = [threads EXCEPT ![t].pc = "failed"]
            /\ Abort
    /\ last_dropped' = "none"
    /\ UNCHANGED <<store, live, hotkey, listener_thread, kb_listening, queue, modal,
                   clipboard, emitted, delivered>>

Run == \E t \in 1..Len(threads) : RunEnter(t) \/ RunRegister(t)

\* capture_color emitting without the test of the screen.
capture_color_unguarded(p, screen) == <<ColorData(p)>>

\* capture_color: what one callback emits
capture_color(p, screen) == IF screen THEN <<ColorData(p)>> ELSE <<>>

RECURSIVE Repeat(_, _)
Repeat(s, n) == IF n = 0 THEN <<>> ELSE s \o Repeat(s, n - 1)

\* HotkeyPressed with a callback that appends to the history itself.
HotkeyPressedDirect(spec, p, screen, limit) ==
    /\ app = "running"
    /\ Len(emitted) < limit
    /\ LET hit == {h \in os_hotkeys : h.hotkey = spec}
           out == Repeat(capture_color(p, screen), Cardinality(hit))
       IN  /\ hit # {}
           /\ queue' = queue \o out
           /\ emitted' = emitted \o out
           /\ color_history' = [color_history EXCEPT !.items = @ \o out]
    /\ last_dropped' = IF screen THEN "none" ELSE "capture"
    /\ UNCHANGED <<app, file, color_list, live, hotkeyState, modal, clipboard, delivered>>

\* The user presses the key combination spec with the pointer at p: the
\* keyboard library calls the callback of every hotkey registered for it.
HotkeyPressed(spec, p, screen, limit) ==
    /\ app = "running"
    /\ Len(emitted) < limit
    /\ LET hit == {h \in os_hotkeys : h.hotkey = spec}
           out == Repeat(capture_color(p, screen), Cardinality(hit))
       IN  /\ hit # {}
           /\ queue' = queue \o out
           /\ emitted' = emitted \o out
    /\ last_dropped' = IF screen THEN "none" ELSE "capture"
    /\ UNCHANGED <<app, store, live, hotkeyState, modal, clipboard, delivered>>

Press(limit) ==
    \E spec \in HotkeyInputs, screen \in BOOLEAN :
        HotkeyPressed(spec, PointerPath(Len(emitted) + 1), screen, limit)

\* What the write in save_data can do: succeed, fail in open() (the file is
\* as it was), or fail after open() has truncated the file.
IoOutcomes == {"ok", "open_fails", "write_fails"}

\* save_data writing the newest record only instead of the whole list.
save_data_newest(v, io) ==
    CASE io = "ok" ->
            FileOf(json_dump(PyList(IF v.items = <<>> THEN <<>>
                                    ELSE <<v.items[Len(v.items)]>>)))
      [] io = "open_fails" -> file
      [] io = "write_fails" -> FileOf(BadText)

\* save_data: the whole file is rewritten.
save_data(v, io) ==
    CASE io = "ok" -> FileOf(json_dump(v))
      [] io = "open_fails" -> file
      [] io = "write_fails" -> FileOf(BadText)

\* add_to_history with the capacity test off by one (> for >=).
add_to_history_late(v, rec) ==
    LET kept == IF Len(v.items) > MAX_COLOR_RECORDS THEN Tail(v.items) ELSE v.items
    IN  PyList(Append(kept, rec))

\* add_color_record, the in-memory part
add_to_history(v, rec) ==
    LET kept == IF Len(v.items) >= MAX_COLOR_RECORDS THEN Tail(v.items) ELSE v.items
    IN  PyList(Append(kept, rec))

\* add_color_record(color_record), the slot of colorCaptured
add_color_record(rec, io) ==
    IF color_history.t # "list"
    THEN \* dict.append: AttributeError
         /\ Abort
         /\ UNCHANGED <<store>>
    ELSE /\ color_history' = add_to_history(color_history, rec)
         /\ file' = save_data(color_history', io)
         /\ IF io = "ok"
            THEN /\ color_list' = DisplayRows(color_history')
                 /\ UNCHANGED <<app, os_hotkeys>>
            ELSE /\ Abort
                 /\ UNCHANGED color_list

\* Deliver taking the newest queued emission instead of the oldest.
DeliverNewest ==
    /\ app = "running"
    /\ queue # <<>>
    /\ \E io \in IoOutcomes : add_color_record(queue[Len(queue)], io)
    /\ queue' = SubSeq(queue, 1, Len(queue) - 1)
    /\ delivered' = Append(delivered, queue[Len(queue)])
    /\ last_dropped' = "none"
    /\ UNCHANGED <<live, hotkey, listener_thread, threads, kb_listening, modal, clipboard,
                   emitted>>

\* The main thread's event loop takes the oldest queued emission.
Deliver ==
    /\ app = "running"
    /\ queue # <<>>
    /\ \E io \in IoOutcomes : add_color_record(Head(queue), io)
    /\ queue' = Tail(queue)
    /\ delivered' = Append(delivered, Head(queue))
    /\ last_dropped' = "none"
    /\ UNCHANGED <<live, hotkey, listener_thread, threads, kb_listening, modal, clipboard,
                   emitted>>

\* clear_history emptying the list in memory without saving it.
clear_history_unsaved(io) ==
    /\ color_history' = PyList(<<>>)
    /\ color_list' = DisplayRows(color_history')
    /\ UNCHANGED <<app, os_hotkeys, file>>

\* clear_history, the slot of the clear button
clear_history(io) ==
    /\ color_history' = PyList(<<>>)
    /\ file' = save_data(color_history', io)
    /\ IF io = "ok"
       THEN /\ color_list' = DisplayRows(color_history')
            /\ UNCHANGED <<app, os_hotkeys>>
       ELSE /\ Abort
            /\ UNCHANGED color_list

Clear ==
    /\ app = "running"
    /\ modal = "none"
    /\ \E io \in IoOutcomes : clear_history(io)
    /\ last_dropped' = "none"
    /\ UNCHANGED <<live, hotkey, listener_thread, threads, kb_listening, queue, modal,
                   clipboard, emitted, delivered>>

\* update_live_color_display recording the live sample as a capture would.
update_live_and_record(p, screen) ==
    /\ live' = IF screen THEN ColorData(p) ELSE live
    /\ color_history' = IF screen /\ color_history.t = "list"
                        THEN add_to_history(color_history, ColorData(p))
                        ELSE color_history
    /\ last_dropped' = IF screen THEN "none" ELSE "tick"
    /\ UNCHANGED <<app, file, color_list, hotkeyState, queue, modal, clipboard, emitted,
                   delivered>>

\* update_live_color_display, the slot of the 100 ms timer
update_live_color_display(p, screen) ==
    /\ live' = IF screen THEN ColorData(p) ELSE live
    /\ last_dropped' = IF screen THEN "none" ELSE "tick"
    /\ UNCHANGED <<app, store, hotkeyState, queue, modal, clipboard, emitted, delivered>>

Tick ==
    /\ app = "running"
    /\ \E p \in TickPositions, screen \in BOOLEAN : update_live_color_display(p, screen)

\* copy_hex_color(list_item), the slot of a double click; index is
\* color_list.row(list_item), -1 for an item the list does not hold.
copy_hex_color(index) ==
    IF 0 <= index /\ index < PyLen(color_history)
    THEN /\ clipboard' = color_history.items[index + 1].hex
         /\ modal' = "copied"
         /\ last_dropped' = "none"
    ELSE /\ last_dropped' = "copy"
         /\ UNCHANGED <<clipboard, modal>>

\* The operator double-clicks a row of the list.
Copy ==
    /\ app = "running"
    /\ modal = "none"
    /\ \E index \in -1..(Len(color_list) - 1) : copy_hex_color(index)
    /\ UNCHANGED <<app, store, live, hotkeyState, queue, emitted, delivered>>

\* change_hotkey up to the input dialog (lines 260-262)
ChangeHotkeyOpen ==
    /\ app = "running"
    /\ modal = "none"
    /\ Len(threads) < MaxThreads
    /\ modal' = "input"
    /\ last_dropped' = "none"
    /\ UNCHANGED <<app, store, live, hotkeyState, queue, clipboard, emitted, delivered>>

\* change_hotkey unregistering before it looks at the dialog's result.
change_hotkey_unhooking(new_hotkey, ok) ==
    IF ok /\ new_hotkey # ""
    THEN /\ hotkey' = new_hotkey
         /\ IF kb_listening
            THEN /\ os_hotkeys' = {}
                 /\ threads' = start_listener(
                        [threads EXCEPT ![listener_thread].hotkey = new_hotkey],
                        new_hotkey)
                 /\ listener_thread' = Len(threads')
                 /\ modal' = "info"
            ELSE /\ threads' = [threads EXCEPT ![listener_thread].hotkey = new_hotkey]
                 /\ modal' = "error"
                 /\ UNCHANGED <<os_hotkeys, listener_thread>>
         /\ last_dropped' = "none"
         /\ UNCHANGED kb_listening
    ELSE /\ modal' = "none"
         /\ last_dropped' = "dialog"
         /\ os_hotkeys' = {}
         /\ UNCHANGED <<hotkey, listener_thread, threads, kb_listening>>

\* change_hotkey from the dialog's return (lines 263-272).
\* keyboard.unhook_all_hotkeys clears the listener's hotkey tables, which
\* exist only once the listener has been set up: before that it raises
\* AttributeError, which the except clause reports.
change_hotkey(new_hotkey, ok) ==
    IF ok /\ new_hotkey # ""
    THEN /\ hotkey' = new_hotkey
         /\ IF kb_listening
            THEN /\ os_hotkeys' = {}
                 /\ threads' = start_listener(
                        [threads EXCEPT ![listener_thread].hotkey = new_hotkey],
                        new_hotkey)
                 /\ listener_thread' = Len(threads')
                 /\ modal' = "info"
            ELSE /\ threads' = [threads EXCEPT ![listener_thread].hotkey = new_hotkey]
                 /\ modal' = "error"
                 /\ UNCHANGED <<os_hotkeys, listener_thread>>
         /\ last_dropped' = "none"
         /\ UNCHANGED kb_listening
    ELSE /\ modal' = "none"
         /\ last_dropped' = "dialog"
         /\ UNCHANGED hotkeyState

ChangeHotkeyReturn ==
    /\ app = "running"
    /\ modal = "input"
    /\ \E new_hotkey \in HotkeyInputs, ok \in BOOLEAN : change_hotkey(new_hotkey, ok)
    /\ UNCHANGED <<app, store, live, queue, clipboard, emitted, delivered>>

\* The operator closes the message box.
DismissBox ==
    /\ app = "running"
    /\ modal \in {"info", "error", "copied"}
    /\ modal' = "none"
    /\ last_dropped' = "none"
    /\ UNCHANGED <<app, store, live, hotkeyState, queue, clipboard, emitted, delivered>>

\* ------------------------------------------------------- specifications
Init == InitWith({NoFile})

\* The hotkey protocol and the dispatcher, from a missing file.
Next ==
    \/ Construct
    \/ Run
    \/ Press(MaxEmit)
    \/ Deliver
    \/ Clear
    \/ ChangeHotkeyOpen
    \/ ChangeHotkeyReturn
    \/ DismissBox

Spec == Init /\ [][Next]_vars

\* The same system under the event loop's guarantee that a queued emission
\* is taken from the queue.
SpecLive == Spec /\ WF_vars(Deliver)

\* The history store with the live timer, from every kind of persisted file.
StartFiles ==
    {NoFile, FileOf(BadText), FileOf(json_dump(PyDict(0))), FileOf(json_dump(PyDict(1)))}
    \cup {FileOf(json_dump(StoredList(n))) : n \in {0, 1, MAX_COLOR_RECORDS - 1,
                                         MAX_COLOR_RECORDS, MAX_COLOR_RECORDS + 1}}

InitStore == InitWith(StartFiles)

NextStore ==
    \/ Construct
    \/ Run
    \/ Press(MaxEmit)
    \/ Deliver
    \/ Clear
    \/ Tick

SpecStore == InitStore /\ [][NextStore]_vars

\* The store with the displayed list in use: rows are double-clicked.
NextCopy ==
    \/ Construct
    \/ Run
    \/ Press(MaxEmit)
    \/ Deliver
    \/ Clear
    \/ Copy
    \/ DismissBox

SpecCopy == InitStore /\ [][NextCopy]_vars

\* More captures than the history holds, from an empty history.
\* The round trip through color_log.json: the file at startup is what an
\* earlier run saved for a log of up to MaxLogLen samples, taken anywhere on
\* the virtual desktop (left of the primary screen x is negative), or for a
\* full log.
MaxLogLen == 2

RoundTripSamples == {ColorData(<<0 - 1, 0>>), ColorData(<<0, 0>>), ColorData(<<120, 7>>)}

RoundTripLogs == UNION {[1..n -> RoundTripSamples] : n \in 0..MaxLogLen}

RoundTripFiles ==
    {FileOf(json_dump(PyList(l))) : l \in RoundTripLogs}
        \cup {FileOf(json_dump(StoredList(MAX_COLOR_RECORDS)))}

InitRoundTrip == InitWith(RoundTripFiles)

NextRoundTrip ==
    \/ Construct
    \/ Run
    \/ Press(MaxEmit)
    \/ Deliver
    \/ Clear

SpecRoundTrip == InitRoundTrip /\ [][NextRoundTrip]_vars

NextFifo ==
    \/ Construct
    \/ Run
    \/ Press(MaxFifoCaptures)
    \/ Deliver

SpecFifo == Init /\ [][NextFifo]_vars

\* ---------------------------------------------------------------- claims
Min(a, b) == IF a <= b THEN a ELSE b

Range(s) == {s[i] : i \in 1..Len(s)}

\* The last n elements of s, in order.
LastN(s, n) == SubSeq(s, Len(s) - n + 1, Len(s))

\* The records a start file of StartFiles can hold.
StoredRecords == Range(StoredList(MAX_COLOR_RECORDS + 1).items)

\* C1: from an empty history, after N captures handled by add_color_record
\* the history holds exactly the last min(N, 20) of them, in capture order.
FifoEvictionLaw ==
    app # "start" =>
        color_history =
            PyList(LastN(delivered, Min(Len(delivered), MAX_COLOR_RECORDS)))

\* C1 witness: the 21st capture was handled and evicted the first.
FifoFirstEvicted ==
    /\ Len(delivered) = MAX_COLOR_RECORDS + 1
    /\ color_history.items = SubSeq(delivered, 2, MAX_COLOR_RECORDS + 1)
    /\ delivered[1] \notin Range(color_history.items)

\* C2: whatever the file held at startup, the history in memory never has
\* more than MAX_COLOR_RECORDS entries, and neither has a file that
\* save_data wrote.
CapacityInvariant ==
    /\ app # "start" => PyLen(color_history) <= MAX_COLOR_RECORDS
    /\ (app = "running" /\ delivered # <<>>) => PyLen(file.doc) <= MAX_COLOR_RECORDS

\* C3: at most one hotkey is registered with the keyboard library at any
\* time, under every interleaving of the listener threads with change_hotkey.
AtMostOneRegistration == Cardinality(os_hotkeys) <= 1

\* C4: change_hotkey reports success (the information box) only for a spec
\* that the keyboard library accepts.
SuccessOnlyForAcceptedSpec == modal = "info" => ParseOk(hotkey)

\* The registration asked for by the latest start_listener raised.
RegistrationFailed ==
    listener_thread > 0 /\ threads[listener_thread].pc = "failed"

OnlyCurrentSpecRegistered == \A h \in os_hotkeys : h.hotkey = hotkey

\* C7: a tick of the live timer leaves the history, the file and the list
\* unchanged, and every entry of the history is a captured sample or a record
\* of the file loaded at startup.
LiveNeverReachesHistory ==
    /\ [][Tick => UNCHANGED store]_vars
    /\ [](color_history.t = "list" =>
            Range(color_history.items) \subseteq (Range(emitted) \cup StoredRecords))

\* C7 witness: the live labels show a sample that was never captured while
\* the history holds a captured one.
LiveShownBesideHistory ==
    /\ live = ColorData(<<0, 0>>)
    /\ color_history.t = "list"
    /\ color_history.items # <<>>
    /\ Range(color_history.items) \subseteq Range(emitted)
    /\ live \notin Range(color_history.items)

\* C8: the emissions handed to add_color_record are, in order and once each,
\* the emissions made (none lost, none repeated), and every emission is
\* handed over eventually unless the process ends first.
DispatcherDelivery ==
    /\ [](emitted = delivered \o queue)
    /\ \A k \in 1..(MaxEmit + MaxThreads) :
          (Len(emitted) >= k) ~> (Len(delivered) >= k \/ app = "aborted")

\* C8 witness: every emission of a run in which the hotkey was changed has
\* been delivered, two of them at least.
DeliveredAcrossChange ==
    /\ Len(delivered) >= 2
    /\ Len(threads) >= 2
    /\ queue = <<>>

\* C9: the hotkey callback and the listener threads never touch the history,
\* the file or the list: these change only in a step of the main thread's
\* constructor, add_color_record or clear_history.
SingleWriter ==
    /\ [][(Press(MaxEmit) \/ Run) => UNCHANGED store]_vars
    /\ [][store' # store => (Construct \/ Deliver \/ Clear)]_vars

\* C9 witness: a capture is queued by the callback while the history already
\* holds an earlier capture.
CaptureQueuedBesideHistory ==
    /\ queue # <<>>
    /\ color_history.items # <<>>
    /\ app = "running"

\* C10: loading a file whose content is not a list of records never ends the
\* process and yields the empty list.
MalformedLoadYieldsEmpty ==
    [][(app = "start" /\ file.exists /\ file.doc.t # "list")
          => (app' = "running" /\ color_history' = PyList(<<>>))]_vars

\* A step of add_color_record or clear_history whose write did not succeed:
\* the file does not hold the text of the history just mutated.
WriteFailedStep ==
    /\ Deliver \/ Clear
    /\ file' # FileOf(json_dump(color_history'))

\* C11: a write that fails inside add_color_record or clear_history leaves
\* the main thread running, with the mutation kept in memory, so that later
\* events are still handled.
PersistFailureNonFatal == [][WriteFailedStep => app' = "running"]_vars

\* C12: what save_data has written for a history, load_data reads back as
\* that history: the same samples in the same order, equal in x, y, r, g, b
\* and hex.
PersistLoadRoundTrip ==
    [][(Deliver \/ Clear) /\ app' = "running" => load_data(file') = color_history']_vars

\* C12 witness: a log holding both a sample loaded with a negative x and a
\* captured sample has been saved.
SavedMixedLog ==
    /\ app = "running"
    /\ delivered # <<>>
    /\ \E i \in 1..PyLen(color_history) : color_history.items[i].x < 0
    /\ color_history.items[PyLen(color_history)] = delivered[Len(delivered)]
    /\ file = FileOf(json_dump(color_history))

\* C13: a clear whose write succeeds leaves the history empty and a file
\* from which load_data reads an empty history, whatever the history and the
\* file were; a second clear then changes nothing.
ClearEmptiesAndPersists ==
    [][Clear /\ app' = "running" =>
          /\ color_history' = PyList(<<>>)
          /\ load_data(file') = PyList(<<>>)
          /\ (color_history = PyList(<<>>) /\ file = FileOf(json_dump(PyList(<<>>)))
                => UNCHANGED <<app, store, live, hotkeyState, queue, modal, clipboard>>)]_vars

\* C13 witness: a history that held a capture has been cleared, and the file
\* holds the empty list.
ClearedAfterCapture ==
    /\ app = "running"
    /\ delivered # <<>>
    /\ color_history = PyList(<<>>)
    /\ file = FileOf(json_dump(PyList(<<>>)))

\* C14: a hotkey press while there is no primary screen queues and emits
\* nothing and leaves the history, the file and the list as they were; a
\* tick while there is no primary screen leaves the live labels as they
\* were; neither ends the process or a listener thread.
SamplerFailureAbsorbed ==
    [][/\ last_dropped' = "capture" =>
            UNCHANGED <<queue, emitted, store, live, app, threads, os_hotkeys>>
       /\ last_dropped' = "tick" =>
            UNCHANGED <<live, queue, emitted, store, app, threads, os_hotkeys>>]_vars

\* C14 witness: the hotkey was pressed with no primary screen while the
\* history held a capture and the live labels showed a sample.
CaptureDroppedBesideHistory ==
    /\ last_dropped = "capture"
    /\ app = "running"
    /\ os_hotkeys # {}
    /\ queue = <<>>
    /\ PyLen(color_history) > 0
    /\ live # InitialLive

\* C15: a listener started while a hotkey registration is active is refused:
\* no step adds a registration to the ones the keyboard library already
\* holds.
StartRefusedWhileRegistered ==
    [][os_hotkeys # {} => os_hotkeys' \subseteq os_hotkeys]_vars

\* C16: while the program runs, every add_color_record and clear_history
\* whose write succeeds leaves in the file the text of the whole history, and
\* no other step touches the file or the history: the file equals the
\* history from the first successful write on.
PersistedTracksMemory ==
    [][app = "running" =>
          IF Deliver \/ Clear
          THEN app' = "running" => file' = FileOf(json_dump(color_history'))
          ELSE UNCHANGED <<file, color_history>>]_vars

\* C16 witness: after a capture was appended to a loaded history, the file
\* holds the whole history of several records and the main thread is idle.
WholeHistoryInFile ==
    /\ app = "running"
    /\ modal = "none"
    /\ queue = <<>>
    /\ delivered # <<>>
    /\ PyLen(color_history) > Len(delivered)
    /\ file = FileOf(json_dump(color_history))

\* C17: after every add_color_record and clear_history on a list, the failed
\* writes included, the displayed list has one row per record of the history
\* in the same order; a double click copies the hex shown in its row or
\* nothing, and leaves the history alone.
ListMirrorsLog ==
    [][/\ (Deliver \/ Clear) /\ color_history.t = "list" =>
            color_list' = DisplayRows(color_history')
       /\ Copy =>
            /\ UNCHANGED store
            /\ clipboard' # clipboard =>
                 \E i \in 1..Len(color_list) : clipboard' = color_list[i].data.hex]_vars

\* The listener threads that have been started and have not ended.
LiveListeners == {t \in 1..Len(threads) : threads[t].pc \in {"started", "adding", "waiting"}}

\* C18: at most one listener thread is alive, however often the hotkey has
\* been changed.
AtMostOneLiveListener == Cardinality(LiveListeners) <= 1

\* C19: when the change-hotkey dialog is cancelled or returns an empty
\* string, the stored hotkey, the registrations, the listener threads, the
\* history, the file and the list are all as before.
CancelledChangeIsNoOp ==
    [][modal = "input" /\ modal' = "none" =>
          UNCHANGED <<hotkeyState, store, queue, live, app>>]_vars

\* C19 witness: the dialog was cancelled while the hotkey was registered, and
\* the registration is still there.
CancelledWhileRegistered ==
    /\ last_dropped = "dialog"
    /\ modal = "none"
    /\ app = "running"
    /\ os_hotkeys # {}
    /\ \A h \in os_hotkeys : h.hotkey = hotkey /\ h.owner = listener_thread

=============================================================================
